---- MODULE Spec2Model ----
(***************************************************************************)
(* contentful-to-algolia: the locale flattener (lib/Contentful.js), the    *)
(* index reconciler (lib/Algolia.js) and the sync orchestrator             *)
(* (lib/Sync.js) as a state machine.                                       *)
(*                                                                         *)
(* JavaScript values are tagged records, so that values of different       *)
(* JavaScript types can be compared: undefined, strings, booleans, numbers *)
(* and objects (a function from property names to values).  A property     *)
(* that is present with the value undefined is a key of the function       *)
(* mapped to `undefined`; an absent property is not a key.                 *)
(***************************************************************************)
EXTENDS Integers, Sequences, FiniteSets, TLC

VARIABLES
  locales,      \* Contentful.locales: the configured locale specification
  localesGiven, \* whether the configuration gave locales; when it did not,
                \* this.locales is undefined and locales is not read
  flatEntry,    \* flattener harness: the source record handed to the flattener
  flatGroup,    \* flattener harness: the locale group of the last resolution
  flatField,    \* flattener harness: the per-locale map resolved last
  flatValue,    \* flattener harness: result of _getLocaleString
  flatDocs,     \* flattener harness: result of _getLocalizedEntries
  flatPc,       \* flattener harness: "init" | "resolved" | "flattened" |
                \* "merged" | "thrown" | "cleaned"
  flatStack,    \* flattener harness: the cleanStack handed to _cleanMore
  source,       \* the Content Source: record type -> sequence of source records
  index,        \* the Document Index: objectID -> stored document
  sync,         \* the fields sync() sets on the Sync instance
  calls,        \* sequence of sync() calls made so far (their arguments)
  algolia,      \* per call: the fields of its Algolia instance
  tasks,        \* per call, per record type of the call: the syncSingle chain
  inflight      \* write requests sent to the index and not yet answered

flatVars == <<flatEntry, flatGroup, flatField, flatValue, flatDocs, flatPc, flatStack>>

syncVars == <<source, index, sync, calls, algolia, tasks, inflight>>

vars == <<locales, localesGiven, flatVars, syncVars>>

----------------------------------------------------------------------------
(* Bounds of the model *)

MaxGroups == 2      \* locale groups in a locale specification
MaxGroupLen == 2    \* locale codes in one group
MaxCalls == 2       \* sync() calls on the one Sync instance
MaxTypes == 2       \* record types named in one sync() call
MaxTasks == 2       \* record types named over all sync() calls
MaxPages == 2       \* the source holds up to about MaxPages full pages
PageMargin == 5     \* ... give or take PageMargin records

----------------------------------------------------------------------------
(* JavaScript values *)

undefined == [type |-> "undefined"]
Str(s) == [type |-> "string", value |-> s]
Bool(b) == [type |-> "boolean", value |-> b]
Num(n) == [type |-> "number", value |-> n]
Obj(p) == [type |-> "object", props |-> p]

\* JavaScript truthiness (ToBoolean)
Truthy(v) ==
  CASE v.type = "undefined" -> FALSE
    [] v.type = "boolean" -> v.value
    [] v.type = "number" -> v.value # 0
    [] v.type = "string" -> v.value # ""
    [] OTHER -> TRUE

\* property read obj[key] on the properties p of an object
Get(p, key) == IF key \in DOMAIN p THEN p[key] ELSE undefined

\* property read v[key] on any value: a non-object has no own properties here
GetV(v, key) == IF v.type = "object" THEN Get(v.props, key) ELSE undefined

\* obj[key] = value
Put(p, key, v) == [k \in DOMAIN p \cup {key} |-> IF k = key THEN v ELSE p[k]]

\* delete obj[key]
Delete(p, key) == [k \in DOMAIN p \ {key} |-> p[k]]

EmptyProps == [k \in {} |-> undefined]

RECURSIVE merge(_, _)
\* lodash _.merge(object, other) on properties: objects are merged
\* recursively, a value of undefined in other is skipped when the key exists
merge(object, other) ==
  [k \in DOMAIN object \cup DOMAIN other |->
     IF k \notin DOMAIN other THEN object[k]
     ELSE IF other[k].type = "object"
       THEN IF k \in DOMAIN object /\ object[k].type = "object"
              THEN Obj(merge(object[k].props, other[k].props))
              ELSE Obj(merge(EmptyProps, other[k].props))
     ELSE IF other[k] = undefined /\ k \in DOMAIN object THEN object[k]
     ELSE other[k]]

----------------------------------------------------------------------------
(* lib/Contentful.js: the locale flattener *)

RECURSIVE LocaleStringFrom(_, _, _, _)
\* the forEach of _getLocaleString from position i on
LocaleStringFrom(field, locale, i, localizedField) ==
  IF i > Len(locale) THEN localizedField
  ELSE LocaleStringFrom(field, locale, i + 1,
         IF Truthy(GetV(field, locale[i])) /\ ~Truthy(localizedField)
           THEN GetV(field, locale[i])
           ELSE localizedField)

_getLocaleString(field, locale) == LocaleStringFrom(field, locale, 1, undefined)

\* tags the document with the last code of the group
_getFieldsForLocale_lastCode(fields, locale) ==
  Put([key \in DOMAIN fields |-> _getLocaleString(fields[key], locale)],
      "locale", Str(locale[Len(locale)]))

_getFieldsForLocale(fields, locale) ==
  Put([key \in DOMAIN fields |-> _getLocaleString(fields[key], locale)],
      "locale", Str(locale[1]))

\* the codes of all groups of the locale specification
AllCodes(ls) == UNION {{ls[i][j] : j \in 1..Len(ls[i])} : i \in 1..Len(ls)}

\* the bookkeeping _cleanEntry deletes from entry.sys
SysDeleted == {"space", "contentType", "type", "revision"}

\* what an operation gives when it throws a TypeError
TypeError == [thrown |-> "TypeError"]

Thrown(result) == "thrown" \in DOMAIN result

\* _cleanEntry(entry, full): the loop over this.locales that fills
\* fields.contentType throws when this.locales is undefined
_cleanEntry(entry, full) ==
  LET sys == Get(entry, "sys")
      contentType ==
        IF Truthy(sys) /\ Truthy(GetV(sys, "contentType"))
          THEN GetV(GetV(GetV(sys, "contentType"), "sys"), "id")
          ELSE Bool(FALSE)
      newEntry ==
        IF Truthy(sys) /\ ~full
          THEN [k \in DOMAIN sys.props \ SysDeleted |-> sys.props[k]]
          ELSE EmptyProps
      fields == Get(entry, "fields")
      newFields ==
        IF fields.type = "object" /\ ~Truthy(GetV(fields, "contentType"))
          THEN Obj(Put(fields.props, "contentType",
                       Obj([c \in AllCodes(locales) |-> contentType])))
          ELSE fields
  IN IF ~localesGiven /\ fields.type = "object"
          /\ ~Truthy(GetV(fields, "contentType"))
       THEN TypeError
       ELSE Put(newEntry, "fields", newFields)

_mergeFields(entry, fields) == Delete(merge(entry, fields), "fields")

\* _cleanLocales: a property holding a linked record is replaced by the
\* record's fields resolved to the locale group
_cleanLocales(entry, locale) ==
  [key \in DOMAIN entry |->
     IF entry[key].type = "object" /\ Truthy(GetV(entry[key], "fields"))
       THEN Obj(_getFieldsForLocale(GetV(entry[key], "fields").props, locale))
       ELSE entry[key]]

\* _.indexOf(array, value): the 0-based position of value, -1 when absent
indexOf(array, value) ==
  IF \E i \in 1..Len(array) : array[i] = value
    THEN (CHOOSE i \in 1..Len(array) :
            array[i] = value /\ \A j \in 1..(i - 1) : array[j] # value) - 1
    ELSE -1

RECURSIVE _cleanMore(_, _, _)
\* _cleanMore(entry, locale, cleanStack = []): the guard tests the
\* truthiness of the position, so it returns at once for every position
\* but 0 (absent, -1, included)
_cleanMore(entry, locale, cleanStack) ==
  IF indexOf(cleanStack, Obj(entry)) # 0 THEN entry
  ELSE merge(entry,
         [key \in {k \in DOMAIN entry : entry[k].type = "object"} |->
            IF Truthy(GetV(entry[key], "sys"))
              THEN Obj(_cleanEntry(entry[key].props, FALSE))
              ELSE Obj(_cleanMore(entry[key].props, locale,
                                  Append(cleanStack, Obj(entry))))])

\* _getLocalizedEntries(entry): what _cleanEntry throws is thrown on;
\* without locales the one document of _mergeFields(entry, entry.fields) is
\* returned, not a list; with a locale specification one document per
\* locale group, in the order of the groups.  No field of the
\* records modelled here is list-valued, so _getFields and
\* _getLocalForNestedFields, which rewrite list-valued properties only,
\* leave the documents as they are.
_getLocalizedEntries(entry) ==
  LET cleaned == _cleanEntry(entry, FALSE)
  IN IF Thrown(cleaned) THEN cleaned
     ELSE IF ~localesGiven THEN _mergeFields(cleaned, cleaned["fields"].props)
     ELSE
     [i \in 1..Len(locales) |->
        LET locale == locales[i]
            fields == _getFieldsForLocale(cleaned["fields"].props, locale)
            newEntry == _mergeFields(cleaned, fields)
        IN _cleanLocales(_cleanMore(newEntry, locale, <<>>), locale)]

----------------------------------------------------------------------------
(* Inputs of the flattener *)

Codes == {"en", "de"}

\* the locale groups: sequences of 1..MaxGroupLen distinct codes
Groups ==
  {g \in UNION {[1..n -> Codes] : n \in 1..MaxGroupLen} :
     \A i, j \in 1..Len(g) : i # j => g[i] # g[j]}

\* the locale specifications: 1..MaxGroups groups
LocaleSpecs == UNION {[1..n -> Groups] : n \in 1..MaxGroups}

\* values of a scalar field, the falsy ones included
FieldValues == {Str("Hello"), Str("Hallo"), Str(""), Bool(FALSE), Num(0)}

\* a per-locale map: codes -> value, a code without entry is no key
LocaleMaps(values) == UNION {[cs -> values] : cs \in SUBSET Codes}

\* a linked record (an author) with one scalar field
Linked(name) ==
  Obj([sys |-> Obj([id |-> Str("a1"), type |-> Str("Entry")]),
       fields |-> Obj([name |-> Obj(name)])])

\* a source record as the Content Source returns it with locale = '*'
Entry(id, contentType, fields) ==
  [sys |-> Obj([id |-> Str(id), type |-> Str("Entry"), revision |-> Num(1),
                contentType |-> Obj([sys |-> Obj([id |-> Str(contentType)])])]),
   fields |-> Obj(fields)]

FlatEntries ==
  {Entry("e1", "post", [title |-> Obj(t)]) : t \in LocaleMaps(FieldValues)}
  \cup
  {Entry("e1", "post",
         [title |-> Obj([en |-> Str("Hello")]),
          author |-> Obj([en |-> Linked(n)])]) :
     n \in LocaleMaps({Str("Ann"), Str("")})}
  \cup
  {Entry("e1", "post",
         [title |-> Obj([en |-> Str("Hello")]),
          contentType |-> Obj([en |-> Str("post")])])}

----------------------------------------------------------------------------
(* lib/Contentful.js: the source fetcher *)

MAX_CONTENTFUL_RESULTS == 1000

Min(a, b) == IF a < b THEN a ELSE b

RECURSIVE flatten(_)
\* flatten(array): the documents of the per-record arrays, in order (the
\* concatenation is computed by halves, which keeps the evaluation shallow)
flatten(array) ==
  IF Len(array) = 0 THEN <<>>
  ELSE IF Len(array) = 1 THEN array[1]
  ELSE LET half == Len(array) \div 2
       IN flatten(SubSeq(array, 1, half)) \o flatten(SubSeq(array, half + 1, Len(array)))

\* the Content Source's answer to client.getEntries(query): the records of
\* the content type (with that sys.id, when the query names one) from
\* position query.skip on, at most query.limit of them
ClientGetEntries(query) ==
  LET ofType == source[query.content_type]
      IsAsked(e) == ~Truthy(query.sysId) \/ GetV(e["sys"], "id") = query.sysId
      matching == SelectSeq(ofType, IsAsked)
  IN [items |-> SubSeq(matching, query.skip + 1,
                       Min(query.skip + query.limit, Len(matching))),
      skip |-> query.skip,
      total |-> Len(matching)]

\* the query getEntries builds, with the skip and limit of getEntriesPaged
Query(categoryId, entryId, skip) ==
  [content_type |-> categoryId, sysId |-> entryId,
   skip |-> skip, limit |-> MAX_CONTENTFUL_RESULTS]

\* a comparison that asks for one page too many when the total is a
\* multiple of the page size
MorePages_orEqual(result) == result.skip + MAX_CONTENTFUL_RESULTS <= result.total

\* the .then of getEntriesPaged on a page: go on or resolve
MorePages(result) == result.skip + MAX_CONTENTFUL_RESULTS < result.total

\* the .then of getEntries: every record localised, the arrays flattened
\* (no manipulateSingle is given)
LocalizeAll(entries) ==
  flatten([i \in 1..Len(entries) |-> _getLocalizedEntries(entries[i])])

----------------------------------------------------------------------------
(* lib/Algolia.js: the index reconciler *)

\* getEntryKey(entry): the SHA-256 digest of the bytes of entry.id followed
\* by the bytes of entry.locale; the digest is taken as injective on that
\* byte string, so the key is the byte string itself
getEntryKey(entry) == entry["id"].value \o entry["locale"].value

\* _.keyBy(data, getEntryKey): key -> the last document of data with that
\* key, given as its position in data (the documents are shared, not copied)
keyBy(data) ==
  [key \in {getEntryKey(data[i]) : i \in 1..Len(data)} |->
     CHOOSE i \in 1..Len(data) :
       /\ getEntryKey(data[i]) = key
       /\ \A j \in (i + 1)..Len(data) : getEntryKey(data[j]) # key]

\* _.omitBy(entry, _.isUndefined): the top-level properties only
omitUndefined(entry) == [k \in {k \in DOMAIN entry : entry[k] # undefined} |-> entry[k]]

\* _.isEqual(compactEntry, hit) on the compacted entry
isEqualToHit(entry, hit) == omitUndefined(entry) = hit

\* leaves the hits of the other content types in
filterHits_none(hits, contentType) == hits

\* _.filter(hits, {contentType}) when contentType is given
filterHits(hits, contentType) ==
  LET OfType(hit) == Get(hit, "contentType") = contentType
  IN IF Truthy(contentType) THEN SelectSeq(hits, OfType) ELSE hits

RECURSIVE EachHit(_, _, _, _, _)
\* the _.each over the hits from position i on; st holds the documents
\* (objectIDs assigned in place), the positions pushed to results.updated
\* and results.deleted
EachHit(hits, i, entriesIndex, contentType, st) ==
  IF i > Len(hits) THEN st
  ELSE
    LET hit == hits[i]
        key == getEntryKey(hit)
    IN IF key \in DOMAIN entriesIndex
         THEN LET pos == entriesIndex[key]
                  entry == IF st.data[pos]["locale"] = hit["locale"]
                             THEN Put(st.data[pos], "objectID", hit["objectID"])
                             ELSE st.data[pos]
              IN EachHit(hits, i + 1, entriesIndex, contentType,
                   [st EXCEPT !.data[pos] = entry,
                              !.updated = IF ~isEqualToHit(entry, hit)
                                            THEN Append(@, pos) ELSE @])
         ELSE EachHit(hits, i + 1, entriesIndex, contentType,
                [st EXCEPT !.deleted = IF Truthy(contentType)
                                         THEN Append(@, hit["objectID"]) ELSE @])

\* the .then of getElementsPromise(data, contentType) on the snapshot:
\* results.created / updated / deleted, and data as the matching left it
getElementsPromise(data, contentType, cachedHits) ==
  LET NoObjectID(entry) == ~Truthy(Get(entry, "objectID"))
      st == EachHit(filterHits(cachedHits, contentType), 1, keyBy(data), contentType,
                    [data |-> data, updated |-> <<>>, deleted |-> <<>>])
  IN [created |-> SelectSeq(st.data, NoObjectID),
      updated |-> [n \in 1..Len(st.updated) |-> st.data[st.updated[n]]],
      deleted |-> st.deleted,
      data |-> st.data]

\* the list indexData passes to indexObjects as deletedObjects
deletedEntries(entries, isSingle) == IF isSingle THEN <<>> ELSE entries.deleted

\* the requests indexObjects sends for one task: addObjects sends one
\* addObject per object, updateObjects one saveObjects and deleteObjects one
\* deleteObjects, and none of them sends anything for an empty list
addObjects(c, t, objects) ==
  {[call |-> c, task |-> t, op |-> "add", no |-> n, body |-> <<objects[n]>>] :
     n \in 1..Len(objects)}

\* sends the batch also when the list is empty
updateObjects_alwaysSends(c, t, objects) ==
  {[call |-> c, task |-> t, op |-> "update", no |-> 0, body |-> objects]}

updateObjects(c, t, objects) ==
  IF Len(objects) = 0 THEN {}
  ELSE {[call |-> c, task |-> t, op |-> "update", no |-> 0, body |-> objects]}

deleteObjects(c, t, objects) ==
  IF Len(objects) = 0 THEN {}
  ELSE {[call |-> c, task |-> t, op |-> "delete", no |-> 0, body |-> objects]}

indexObjects(c, t, newObjects, existingObjects, deletedObjects) ==
  addObjects(c, t, newObjects) \cup updateObjects(c, t, existingObjects)
    \cup deleteObjects(c, t, deletedObjects)

----------------------------------------------------------------------------
(* The Document Index: what the Algolia client's calls do to the index *)

RECURSIVE Json(_)
\* the JSON body of a request: properties whose value is undefined are not
\* serialised, at any depth
Json(p) ==
  [k \in {k \in DOMAIN p : p[k] # undefined} |->
     IF p[k].type = "object" THEN Obj(Json(p[k].props)) ELSE p[k]]

\* the objectID the index generates for the document of an addObject
\* request: a fresh one for every request
ObjectID(r) ==
  Str("N" \o ToString(r.call) \o "." \o ToString(r.task) \o "." \o ToString(r.no))

RECURSIVE SetToSeq(_)
SetToSeq(S) ==
  IF S = {} THEN <<>>
  ELSE LET x == CHOOSE x \in S : TRUE IN <<x>> \o SetToSeq(S \ {x})

\* browseAll: every document of the index
BrowseAll == LET ids == SetToSeq(DOMAIN index) IN [n \in 1..Len(ids) |-> index[ids[n]]]

\* addObject(object): stored under a fresh objectID
IndexAdd(idx, object, objectID) ==
  [id \in DOMAIN idx \cup {objectID.value} |->
     IF id = objectID.value THEN Put(Json(object), "objectID", objectID)
     ELSE idx[id]]

\* saveObjects(objects): each object replaces (or creates) the document of
\* its objectID; the batch is refused when an object has no objectID
SaveAccepted(objects) ==
  \A n \in 1..Len(objects) : Get(objects[n], "objectID").type = "string"

IndexSave(idx, objects) ==
  LET ids == {objects[n]["objectID"].value : n \in 1..Len(objects)}
  IN [id \in DOMAIN idx \cup ids |->
        IF id \in ids
          THEN Json(objects[CHOOSE n \in 1..Len(objects) :
                       /\ objects[n]["objectID"].value = id
                       /\ \A m \in (n + 1)..Len(objects) :
                            objects[m]["objectID"].value # id])
          ELSE idx[id]]

\* deleteObjects(objectIDs)
IndexDelete(idx, objectIDs) ==
  [id \in DOMAIN idx \ {objectIDs[n].value : n \in 1..Len(objectIDs)} |-> idx[id]]

----------------------------------------------------------------------------
(* lib/Sync.js and the promise chains it starts: the actions *)

Types == {"post", "page"}

\* a function passed as callback
Fn(c) == [type |-> "function", id |-> c]

NoResults == [created |-> <<>>, updated |-> <<>>, deleted |-> <<>>, data |-> <<>>]

\* the chain syncSingle(type, algoliaInstance) starts: getEntries has sent
\* the request of the first page
NewTask(type, entryId) ==
  [type |-> type, entryId |-> entryId, pc |-> "paging", skip |-> 0,
   offsets |-> <<0>>, entries |-> <<>>, content |-> <<>>, isSingle |-> FALSE,
   results |-> NoResults, deleted |-> <<>>, waiting |-> {}, error |-> "none",
   returned |-> [type |-> "pending"], observed |-> undefined]

NewAlgolia == [cachedResults |-> [state |-> "null", hits |-> <<>>], browses |-> 0]

RECURSIVE SumLen(_)
SumLen(seqs) == IF seqs = <<>> THEN 0 ELSE Len(Head(seqs)) + SumLen(Tail(seqs))

TotalTasks == SumLen(tasks)

\* sync(contentTypes, indexName, callback, entryId): sets the fields of the
\* Sync instance, makes one Algolia instance and starts one syncSingle per
\* record type
SyncCall(contentTypes, callback, entryId) ==
  /\ Len(calls) < MaxCalls
  /\ TotalTasks + Len(contentTypes) <= MaxTasks
  /\ sync' = [callback |-> callback, entryId |-> entryId]
  /\ calls' = Append(calls, [contentTypes |-> contentTypes,
                             callback |-> callback, entryId |-> entryId])
  /\ algolia' = Append(algolia, NewAlgolia)
  /\ tasks' = Append(tasks, [t \in 1..Len(contentTypes) |->
                               NewTask(contentTypes[t], sync'.entryId)])
  /\ UNCHANGED <<locales, localesGiven, flatVars, source, index, inflight>>

\* a page arrives: the .then of getEntriesPaged; after the last page
\* getEntriesPaged resolves and the .then of getEntries localises the records
PageResponse(c, t) ==
  LET task == tasks[c][t]
      result == ClientGetEntries(Query(task.type, task.entryId, task.skip))
      entries == task.entries \o result.items
  IN /\ task.pc = "paging"
     /\ tasks' = [tasks EXCEPT ![c][t] =
          IF MorePages(result)
            THEN [task EXCEPT !.entries = entries,
                              !.skip = task.skip + MAX_CONTENTFUL_RESULTS,
                              !.offsets = Append(@, task.skip + MAX_CONTENTFUL_RESULTS)]
            ELSE [task EXCEPT !.entries = entries,
                              !.content = LocalizeAll(entries),
                              !.pc = "localized"]]
     /\ UNCHANGED <<locales, localesGiven, flatVars, source, index, sync,
                    calls, algolia, inflight>>

\* a failed fetch that ends the chains of all record types of the call
PageError_endsAll(c, t) ==
  /\ tasks[c][t].pc = "paging"
  /\ tasks' = [tasks EXCEPT ![c] =
       [t2 \in 1..Len(tasks[c]) |->
          [tasks[c][t2] EXCEPT !.pc = "done", !.error = "fetch"]]]
  /\ UNCHANGED <<locales, localesGiven, flatVars, source, index, sync,
                 calls, algolia, inflight>>

\* a page request fails: getEntries rejects and the .catch(console.error)
\* of syncSingle resolves the chain
PageError(c, t) ==
  /\ tasks[c][t].pc = "paging"
  /\ tasks' = [tasks EXCEPT ![c][t].pc = "done", ![c][t].error = "fetch"]
  /\ UNCHANGED <<locales, localesGiven, flatVars, source, index, sync,
                 calls, algolia, inflight>>

\* caches the scan only once it has ended, so that a caller that comes
\* while it is running starts another one
cacheScan_whenEnded(a) ==
  IF a.cachedResults.state # "resolved"
    THEN [cachedResults |-> [state |-> "pending", hits |-> <<>>],
          browses |-> a.browses + 1]
    ELSE a

\* the head of getElementsPromise on the fields a of the Algolia instance:
\* if (!this.cachedResults) the scan is started and its promise cached
cacheScan(a) ==
  IF a.cachedResults.state = "null"
    THEN [cachedResults |-> [state |-> "pending", hits |-> <<>>],
          browses |-> a.browses + 1]
    ELSE a

\* singleCallback(type, content, algoliaInstance) when this.callback(content)
\* throws: the .then of syncSingle rejects before indexData is called and
\* the .catch(console.error) of syncSingle resolves the chain
ObserverThrows(c, t) ==
  /\ tasks[c][t].pc = "localized"
  /\ Truthy(sync.callback)
  /\ tasks' = [tasks EXCEPT ![c][t].observed = sync.callback,
                            ![c][t].pc = "done",
                            ![c][t].error = "observer"]
  /\ UNCHANGED <<locales, localesGiven, flatVars, source, index, sync,
                 calls, algolia, inflight>>

\* singleCallback(type, content, algoliaInstance): the observer is called,
\* then indexData is called with
\* isSingle = !!this.entryId, and getElementsPromise starts the scan of the
\* index unless cachedResults is set
SingleCallback(c, t) ==
  /\ tasks[c][t].pc = "localized"
  /\ tasks' = [tasks EXCEPT ![c][t].observed = sync.callback,
                            ![c][t].isSingle = Truthy(sync.entryId),
                            ![c][t].pc = "browsing"]
  /\ algolia' = [algolia EXCEPT ![c] = cacheScan(@)]
  /\ UNCHANGED <<locales, localesGiven, flatVars, source, index, sync,
                 calls, inflight>>

\* the browser's 'end' event: the promise in cachedResults resolves
BrowseEnd(c) ==
  /\ algolia[c].cachedResults.state = "pending"
  /\ algolia' = [algolia EXCEPT ![c].cachedResults =
                   [state |-> "resolved", hits |-> BrowseAll]]
  /\ UNCHANGED <<locales, localesGiven, flatVars, source, index, sync,
                 calls, tasks, inflight>>

\* the browser's 'error' event: the promise in cachedResults rejects
BrowseError(c) ==
  /\ algolia[c].cachedResults.state = "pending"
  /\ algolia' = [algolia EXCEPT ![c].cachedResults.state = "rejected"]
  /\ UNCHANGED <<locales, localesGiven, flatVars, source, index, sync,
                 calls, tasks, inflight>>

\* what addObjects resolves with: {objectIDs: []} for no object, else the
\* array of what the addObject calls returned (nothing, a callback is given)
AddResult(objects) ==
  IF Len(objects) = 0 THEN [type |-> "object", objectIDs |-> <<>>]
  ELSE [type |-> "array", items |-> [n \in 1..Len(objects) |-> undefined]]

\* what updateObjects and deleteObjects resolve with: {objectIDs: []} for
\* an empty list, else the answer of the index, which names the objectIDs
BatchResult(objectIDs) == [type |-> "object", objectIDs |-> objectIDs]

RECURSIVE MergedFrom(_, _, _)
\* the forEach of getMergedObjects from position i on: an element without
\* objectIDs has undefined concatenated
MergedFrom(data, i, objects) ==
  IF i > Len(data) THEN objects
  ELSE MergedFrom(data, i + 1,
         objects \o (IF data[i].type = "object" THEN data[i].objectIDs
                     ELSE <<undefined>>))

getMergedObjects(data) == MergedFrom(data, 1, <<>>)

\* the value indexData resolves with once Promise.all of indexObjects has
\* resolved for the task
Resolution(task) ==
  [type |-> "array",
   items |-> getMergedObjects(
     <<AddResult(task.results.created),
       BatchResult([n \in 1..Len(task.results.updated) |->
                      Get(task.results.updated[n], "objectID")]),
       BatchResult(task.deleted)>>)]

\* the .then of getElementsPromise and of indexData on the snapshot: the
\* three lists are computed and indexObjects sends the requests; Promise.all
\* waits for saveObjects and deleteObjects (addObject is given a callback)
Reconcile(c, t) ==
  LET task == tasks[c][t]
      entries == getElementsPromise(task.content, Str(task.type),
                                    algolia[c].cachedResults.hits)
      deleted == deletedEntries(entries, task.isSingle)
      sent == indexObjects(c, t, entries.created, entries.updated, deleted)
      waiting == {r.op : r \in {r \in sent : r.op # "add"}}
  IN /\ task.pc = "browsing"
     /\ algolia[c].cachedResults.state = "resolved"
     /\ inflight' = inflight \cup sent
     /\ tasks' = [tasks EXCEPT ![c][t] =
          LET reconciled == [task EXCEPT !.content = entries.data,
                                         !.results = entries,
                                         !.deleted = deleted,
                                         !.waiting = waiting]
          IN IF waiting = {}
               THEN [reconciled EXCEPT !.pc = "done",
                                       !.returned = Resolution(reconciled)]
               ELSE [reconciled EXCEPT !.pc = "writing"]]
     /\ UNCHANGED <<locales, localesGiven, flatVars, source, index, sync,
                    calls, algolia>>

\* the scan failed: the .catch(console.error) of indexData resolves the chain
ReconcileRejected(c, t) ==
  /\ tasks[c][t].pc = "browsing"
  /\ algolia[c].cachedResults.state = "rejected"
  /\ tasks' = [tasks EXCEPT ![c][t].pc = "done", ![c][t].error = "scan",
                            ![c][t].returned = undefined]
  /\ UNCHANGED <<locales, localesGiven, flatVars, source, index, sync,
                 calls, algolia, inflight>>

\* the chain of the task after the answer to one of its awaited requests
Answered(task, op) ==
  IF task.pc # "writing" THEN task
  ELSE IF task.waiting \ {op} = {}
    THEN [task EXCEPT !.waiting = {}, !.pc = "done", !.returned = Resolution(task)]
    ELSE [task EXCEPT !.waiting = @ \ {op}]

\* the index carries out a write request and answers it
IndexApply(r) ==
  /\ r \in inflight
  /\ r.op = "update" => SaveAccepted(r.body)
  /\ inflight' = inflight \ {r}
  /\ index' = CASE r.op = "add" -> IndexAdd(index, r.body[1], ObjectID(r))
                [] r.op = "update" -> IndexSave(index, r.body)
                [] r.op = "delete" -> IndexDelete(index, r.body)
  /\ tasks' = IF r.op = "add" THEN tasks
              ELSE [tasks EXCEPT ![r.call][r.task] = Answered(@, r.op)]
  /\ UNCHANGED <<locales, localesGiven, flatVars, source, sync, calls, algolia>>

\* a saveObjects or deleteObjects request fails: its promise rejects, so
\* Promise.all rejects and the .catch(console.error) of indexData resolves
\* the chain.  (The error of an addObject is dropped by its callback; such a
\* request is one that stays unanswered.)
WriteError(r) ==
  /\ r \in inflight
  /\ r.op # "add"
  /\ inflight' = inflight \ {r}
  /\ tasks' = IF tasks[r.call][r.task].pc # "writing" THEN tasks
              ELSE [tasks EXCEPT ![r.call][r.task].pc = "done",
                                 ![r.call][r.task].error = "batch",
                                 ![r.call][r.task].returned = undefined]
  /\ UNCHANGED <<locales, localesGiven, flatVars, source, index, sync,
                 calls, algolia>>

----------------------------------------------------------------------------
(* Inputs of a sync: the source, the index before it, the calls *)

E1 == Entry("e1", "post", [title |-> Obj([en |-> Str("Hello"), de |-> Str("Hallo")])])

\* e1 with a linked author whose name has no English value
E1a ==
  Entry("e1", "post",
        [title |-> Obj([en |-> Str("Hello"), de |-> Str("Hallo")]),
         author |-> Obj([en |-> Linked([de |-> Str("Ann")])])])

P1 == Entry("p1", "page", [title |-> Obj([en |-> Str("Home")])])

Sources == {[post |-> p, page |-> <<P1>>] : p \in {<<E1>>, <<E1a>>}}

SyncLocales == <<<<"en">>, <<"de">>>>

\* a document as the index holds it
Stored(id, locale, contentType, title, objectID) ==
  [id |-> Str(id), locale |-> Str(locale), contentType |-> Str(contentType),
   title |-> Str(title), objectID |-> Str(objectID)]

\* nothing; e1/en synced and an orphan of each type; e1 synced and an
\* orphan page; a document whose id followed by its locale reads as e1
\* followed by en
InitialIndexes ==
  LET x1 == Stored("e1", "en", "post", "Hello", "X1")
      x2 == Stored("e1", "de", "post", "Hallo", "X2")
      x3 == Stored("e9", "en", "post", "Gone", "X3")
      x4 == Stored("p9", "en", "page", "Gone", "X4")
      x5 == Stored("e1e", "n", "post", "Hello", "X5")
  IN {{}, {x1, x3, x4}, {x1, x2, x4}, {x5}}

IndexOf(docs) == [id \in {d["objectID"].value : d \in docs} |->
                    CHOOSE d \in docs : d["objectID"].value = id]

TypeLists == UNION {[1..n -> Types] : n \in 1..MaxTypes}

EntryIds == {Bool(FALSE), Str("e1")}

FlatIdle ==
  /\ flatEntry = undefined
  /\ flatGroup = <<>>
  /\ flatField = undefined
  /\ flatValue = undefined
  /\ flatDocs = <<>>
  /\ flatPc = "idle"
  /\ flatStack = <<>>

SyncIdle ==
  /\ source = [post |-> <<>>, page |-> <<>>]
  /\ index = IndexOf({})
  /\ sync = [callback |-> undefined, entryId |-> undefined]
  /\ calls = <<>>
  /\ algolia = <<>>
  /\ tasks = <<>>
  /\ inflight = {}

Init ==
  /\ locales = SyncLocales
  /\ localesGiven = TRUE
  /\ FlatIdle
  /\ source \in Sources
  /\ index \in {IndexOf(docs) : docs \in InitialIndexes}
  /\ sync = [callback |-> undefined, entryId |-> undefined]
  /\ calls = <<>>
  /\ algolia = <<>>
  /\ tasks = <<>>
  /\ inflight = {}

Next ==
  \/ \E contentTypes \in TypeLists, entryId \in EntryIds :
       SyncCall(contentTypes, Fn(Len(calls) + 1), entryId)
  \/ \E c \in 1..Len(calls) : \E t \in 1..Len(tasks[c]) : PageResponse(c, t)
  \/ \E c \in 1..Len(calls) : \E t \in 1..Len(tasks[c]) : PageError(c, t)
  \/ \E c \in 1..Len(calls) : \E t \in 1..Len(tasks[c]) : SingleCallback(c, t)
  \/ \E c \in 1..Len(calls) : \E t \in 1..Len(tasks[c]) : ObserverThrows(c, t)
  \/ \E c \in 1..Len(calls) : BrowseEnd(c)
  \/ \E c \in 1..Len(calls) : BrowseError(c)
  \/ \E c \in 1..Len(calls) : \E t \in 1..Len(tasks[c]) : Reconcile(c, t)
  \/ \E c \in 1..Len(calls) : \E t \in 1..Len(tasks[c]) : ReconcileRejected(c, t)
  \/ \E r \in inflight : IndexApply(r)
  \/ \E r \in inflight : WriteError(r)

Spec == Init /\ [][Next]_vars

----------------------------------------------------------------------------
(* The flattener applied to every input: specification SpecFlatten *)

InitFlatten ==
  /\ \/ localesGiven = TRUE /\ locales \in LocaleSpecs
     \/ localesGiven = FALSE /\ locales = <<>>
  /\ flatEntry \in FlatEntries
  /\ flatGroup = <<>>
  /\ flatField = undefined
  /\ flatValue = undefined
  /\ flatDocs = <<>>
  /\ flatPc = "init"
  /\ flatStack = <<>>
  /\ SyncIdle

\* _getLocaleString(field, locale) on a field of the record and a group
ResolveField ==
  /\ flatPc = "init"
  /\ \E i \in 1..Len(locales), key \in DOMAIN flatEntry.fields.props :
       /\ flatGroup' = locales[i]
       /\ flatField' = flatEntry.fields.props[key]
       /\ flatValue' = _getLocaleString(flatEntry.fields.props[key], locales[i])
  /\ flatPc' = "resolved"
  /\ UNCHANGED <<locales, localesGiven, flatEntry, flatDocs, flatStack, syncVars>>

\* _getLocalizedEntries(entry): it throws, returns one document (kept in
\* flatValue) or returns the list of the documents (kept in flatDocs)
FlattenEntry ==
  LET result == _getLocalizedEntries(flatEntry)
  IN /\ flatPc \in {"init", "resolved"}
     /\ IF ~localesGiven
          THEN IF Thrown(result)
                 THEN flatPc' = "thrown" /\ UNCHANGED <<flatValue, flatDocs>>
                 ELSE /\ flatPc' = "merged"
                      /\ flatValue' = Obj(result)
                      /\ UNCHANGED flatDocs
          ELSE /\ flatPc' = "flattened"
               /\ flatDocs' = result
               /\ UNCHANGED flatValue
     /\ UNCHANGED <<locales, localesGiven, flatEntry, flatGroup, flatField,
                    flatStack, syncVars>>

\* the cleanStacks handed to _cleanMore with an entry: empty, the entry
\* itself on it at position 0, and at position 1 under another entry
CleanStacks(entry) ==
  {<<>>, <<Obj(entry)>>, <<Obj([id |-> Str("e0")]), Obj(entry)>>}

\* _cleanMore(newEntry, locale, cleanStack) on the entry as
\* _getLocalizedEntries hands it over for a locale group (kept in flatField),
\* the result kept in flatValue
CleanMoreEntry ==
  /\ flatPc = "init"
  /\ localesGiven
  /\ \E i \in 1..Len(locales) :
       LET cleaned == _cleanEntry(flatEntry, FALSE)
           newEntry == _mergeFields(cleaned,
                         _getFieldsForLocale(cleaned["fields"].props, locales[i]))
       IN \E cleanStack \in CleanStacks(newEntry) :
            /\ flatGroup' = locales[i]
            /\ flatField' = Obj(newEntry)
            /\ flatStack' = cleanStack
            /\ flatValue' = Obj(_cleanMore(newEntry, locales[i], cleanStack))
  /\ flatPc' = "cleaned"
  /\ UNCHANGED <<locales, localesGiven, flatEntry, flatDocs, syncVars>>

NextFlatten == ResolveField \/ FlattenEntry \/ CleanMoreEntry

SpecFlatten == InitFlatten /\ [][NextFlatten]_vars

----------------------------------------------------------------------------
(* The fetcher on sources of several pages: specification SpecPaged *)

Totals ==
  {n \in 0..(MaxPages * MAX_CONTENTFUL_RESULTS + PageMargin) :
     \E k \in 0..MaxPages :
       /\ n >= k * MAX_CONTENTFUL_RESULTS - PageMargin
       /\ n <= k * MAX_CONTENTFUL_RESULTS + PageMargin}

\* the record at position i (from 0) of the source
PagedEntry(i) == Entry("e" \o ToString(i), "post", [title |-> Obj([en |-> Str("Hello")])])

InitPaged ==
  /\ locales = <<<<"en">>>>
  /\ localesGiven = TRUE
  /\ FlatIdle
  /\ \E total \in Totals :
       source = [post |-> [i \in 1..total |-> PagedEntry(i - 1)], page |-> <<>>]
  /\ index = IndexOf({})
  /\ sync = [callback |-> undefined, entryId |-> undefined]
  /\ calls = <<>>
  /\ algolia = <<>>
  /\ tasks = <<>>
  /\ inflight = {}

NextPaged ==
  \/ Len(calls) = 0 /\ SyncCall(<<"post">>, Fn(1), Bool(FALSE))
  \/ \E c \in 1..Len(calls) : \E t \in 1..Len(tasks[c]) : PageResponse(c, t)
  \/ \E c \in 1..Len(calls) : \E t \in 1..Len(tasks[c]) : PageError(c, t)

SpecPaged == InitPaged /\ [][NextPaged]_vars

----------------------------------------------------------------------------
(* C6: locale resolution within a group *)

\* the value of the field at the first code of the group that has an entry
RECURSIVE FirstDefinedFrom(_, _, _)
FirstDefinedFrom(field, group, i) ==
  IF i > Len(group) THEN undefined
  ELSE IF GetV(field, group[i]) # undefined THEN GetV(field, group[i])
  ELSE FirstDefinedFrom(field, group, i + 1)

\* C6 (as claimed): the value _getLocaleString resolves a field to is the
\* value at the first code of the group that has a defined entry, whatever
\* that value is.
C6_FirstMatchAnyValue ==
  flatPc = "resolved" => flatValue = FirstDefinedFrom(flatField, flatGroup, 1)

----------------------------------------------------------------------------
(* C7: one document per locale group *)

\* C7 (as amended): flattening a record under a locale specification of N
\* groups gives exactly N documents, the i-th tagged with the first code of
\* the i-th group; two tags differ exactly when the first codes of their
\* groups differ.
C7_OneDocumentPerGroup ==
  flatPc = "flattened" =>
    /\ Len(flatDocs) = Len(locales)
    /\ \A i \in 1..Len(locales) : Get(flatDocs[i], "locale") = Str(locales[i][1])
    /\ \A i, j \in 1..Len(locales) :
         (Get(flatDocs[i], "locale") # Get(flatDocs[j], "locale"))
           <=> (locales[i][1] # locales[j][1])

\* a record flattened under two groups or more, with distinct tags
C7_Witness ==
  /\ flatPc = "flattened"
  /\ Len(locales) >= 2
  /\ Len(flatDocs) >= 2
  /\ Get(flatDocs[1], "locale") = Str("en")
  /\ Get(flatDocs[2], "locale") = Str("de")

\* C7 (as claimed): ... and the N locale tags are pairwise distinct, for
\* every locale specification.
C7_TagsPairwiseDistinct ==
  flatPc = "flattened" =>
    /\ Len(flatDocs) = Len(locales)
    /\ \A i \in 1..Len(locales) : Get(flatDocs[i], "locale") = Str(locales[i][1])
    /\ \A i, j \in 1..Len(locales) :
         i # j => Get(flatDocs[i], "locale") # Get(flatDocs[j], "locale")

----------------------------------------------------------------------------
(* C9: pagination of the source *)

\* max(1, ceil(total / 1000))
ExpectedRequests(total) ==
  IF total = 0 THEN 1
  ELSE (total + MAX_CONTENTFUL_RESULTS - 1) \div MAX_CONTENTFUL_RESULTS

\* C9: for a stable total T the requests are at offsets 0, 1000, 2000, ...,
\* each with limit 1000, never more than max(1, ceil(T/1000)) of them and
\* exactly that many when getEntriesPaged resolves; it resolves with all
\* records of positions 0..T-1 in order, each once; and no document is
\* produced before the last page has arrived.
C9_PaginationComplete ==
  \A c \in 1..Len(calls) : \A t \in 1..Len(tasks[c]) :
    LET task == tasks[c][t]
        all == source[task.type]
    IN /\ \A n \in 1..Len(task.offsets) :
            task.offsets[n] = (n - 1) * MAX_CONTENTFUL_RESULTS
       /\ Len(task.offsets) <= ExpectedRequests(Len(all))
       /\ task.pc = "paging" =>
            /\ task.entries = SubSeq(all, 1, task.skip)
            /\ task.content = <<>>
       /\ task.pc = "localized" =>
            /\ Len(task.offsets) = ExpectedRequests(Len(all))
            /\ task.entries = all
            /\ Len(task.content) = Len(all) * Len(locales)

\* a source of more than two pages fetched to the end
C9_Witness ==
  \E c \in 1..Len(calls) : \E t \in 1..Len(tasks[c]) :
    /\ tasks[c][t].pc = "localized"
    /\ Len(tasks[c][t].offsets) >= 3
    /\ Len(tasks[c][t].entries) > 2 * MAX_CONTENTFUL_RESULTS

----------------------------------------------------------------------------
(* Notions the claims about a sync share *)

Range(seq) == {seq[n] : n \in 1..Len(seq)}

\* the chain of the task has run the .then of indexData on the snapshot
Reconciled(task) ==
  task.pc \in {"writing", "done"} /\ task.error \in {"none", "batch"}

\* the documents getEntries handed over, before the matching touched them
Fresh(task) == LocalizeAll(task.entries)

\* the snapshot the Algolia instance of call c holds
Snapshot(c) == algolia[c].cachedResults.hits

SameIdLocale(d, h) ==
  Get(d, "id") = Get(h, "id") /\ Get(d, "locale") = Get(h, "locale")

\* the stored document holds the content of the flat document: they differ
\* by the objectID and by properties whose value is undefined only
SameContent(d, h) == Json(Delete(d, "objectID")) = Delete(h, "objectID")

\* the index holds, among the documents of the content type, exactly one
\* document per flat document, with its content, and no other
IndexHoldsExactly(idx, contentType, docs) ==
  LET ofType == {id \in DOMAIN idx : Get(idx[id], "contentType") = Str(contentType)}
  IN /\ \A n \in 1..Len(docs) :
          /\ Cardinality({id \in ofType : SameIdLocale(docs[n], idx[id])}) = 1
          /\ \A id \in ofType :
               SameIdLocale(docs[n], idx[id]) => SameContent(docs[n], idx[id])
     /\ \A id \in ofType : \E n \in 1..Len(docs) : SameIdLocale(docs[n], idx[id])

AllDone == \A c \in 1..Len(calls) : \A t \in 1..Len(tasks[c]) : tasks[c][t].pc = "done"

----------------------------------------------------------------------------
(* C1: a sync leaves the index holding exactly the source's documents *)

\* C1 (as claimed): once a sync without entryId has completed without
\* fetch, scan or batch error (here: every call has completed and no write
\* is in flight any more), the index holds for each of its record types
\* exactly one document per (id, locale) of the fetched documents, with that
\* document's content, and no other document of the type.
C1_IndexHoldsTheSource ==
  \A c \in 1..Len(calls) :
    ( /\ ~Truthy(calls[c].entryId)
      /\ AllDone
      /\ inflight = {}
      /\ \A t \in 1..Len(tasks[c]) : tasks[c][t].error = "none" )
    => \A t \in 1..Len(tasks[c]) :
         IndexHoldsExactly(index, tasks[c][t].type, Fresh(tasks[c][t]))

----------------------------------------------------------------------------
(* C2: the three lists of getElementsPromise *)

\* C2 (as claimed): created is exactly the flat documents no snapshot entry
\* of the record type matches on (id, locale); updated exactly those that
\* have a matching entry whose content differs; deleted exactly the
\* objectIDs of the entries of the type that no flat document matches.
C2_ListsAreExact ==
  \A c \in 1..Len(calls) : \A t \in 1..Len(tasks[c]) :
    LET task == tasks[c][t]
        data == Range(Fresh(task))
        hits == {h \in Range(Snapshot(c)) : Get(h, "contentType") = Str(task.type)}
    IN Reconciled(task) =>
         /\ Range(task.results.created)
              = {d \in data : ~\E h \in hits : SameIdLocale(d, h)}
         /\ {Delete(u, "objectID") : u \in Range(task.results.updated)}
              = {d \in data : \E h \in hits : SameIdLocale(d, h) /\ ~SameContent(d, h)}
         /\ Range(task.results.deleted)
              = {Get(h, "objectID") : h \in {h \in hits : ~\E d \in data : SameIdLocale(d, h)}}

----------------------------------------------------------------------------
(* C3: a single-entry sync deletes nothing *)

\* C3 (as claimed): for a sync call made with entryId set, the list passed
\* to the batch-delete step is empty for every record type of the call and
\* no delete request of the call reaches the index.
C3_SingleEntryNeverDeletes ==
  \A c \in 1..Len(calls) :
    Truthy(calls[c].entryId) =>
      /\ \A t \in 1..Len(tasks[c]) : tasks[c][t].deleted = <<>>
      /\ ~\E r \in inflight : r.call = c /\ r.op = "delete"

----------------------------------------------------------------------------
(* C4: deletes stay within the record type *)

\* C4: every objectID in the deleted list of a record type, and in the list
\* passed to batch-delete, is the objectID of a snapshot entry of that
\* content type; the document a delete request in flight would remove is of
\* the type of its task, also with two record types reconciled against the
\* one snapshot; and without a record type nothing is deleted.
C4_DeletesOnlyOwnType ==
  /\ \A c \in 1..Len(calls) : \A t \in 1..Len(tasks[c]) :
       LET task == tasks[c][t]
           OwnHit(objectID) ==
             \E h \in Range(Snapshot(c)) :
               Get(h, "objectID") = objectID /\ Get(h, "contentType") = Str(task.type)
       IN Reconciled(task) =>
            /\ \A n \in 1..Len(task.results.deleted) : OwnHit(task.results.deleted[n])
            /\ \A n \in 1..Len(task.deleted) : OwnHit(task.deleted[n])
            /\ getElementsPromise(Fresh(task), undefined, Snapshot(c)).deleted = <<>>
  /\ \A r \in inflight :
       r.op = "delete" =>
         \A n \in 1..Len(r.body) :
           r.body[n].value \in DOMAIN index =>
             Get(index[r.body[n].value], "contentType") = Str(tasks[r.call][r.task].type)

\* a call with two record types, each with something to delete, both
\* reconciled against the one snapshot, which holds documents of both types
C4_Witness ==
  \E c \in 1..Len(calls) :
    /\ Len(tasks[c]) >= 2
    /\ tasks[c][1].type # tasks[c][2].type
    /\ \A t \in 1..2 : Reconciled(tasks[c][t]) /\ tasks[c][t].deleted # <<>>

----------------------------------------------------------------------------
(* C5: reconciling an index that is in sync *)

\* C5 (as claimed): when the index already holds exactly the flat documents
\* of the source for the record type, a reconcile pass over the unchanged
\* source yields empty created, updated and deleted lists and sends no write
\* request.
C5_SyncedIndexIsLeftAlone ==
  [][\A c \in 1..Len(calls) : \A t \in 1..Len(tasks[c]) :
       ( /\ tasks[c][t].pc = "browsing"
         /\ Reconciled(tasks'[c][t])
         /\ ~Truthy(tasks[c][t].entryId)
         /\ IndexHoldsExactly(index, tasks[c][t].type, Fresh(tasks[c][t])) )
       => /\ tasks'[c][t].results.created = <<>>
          /\ tasks'[c][t].results.updated = <<>>
          /\ tasks'[c][t].results.deleted = <<>>
          /\ inflight' = inflight]_vars

----------------------------------------------------------------------------
(* C8: the comparison that decides an update *)

\* C8 (as claimed): a flat document that differs from its snapshot entry
\* only by properties whose value is undefined, at the top level or inside a
\* nested resolved record, is not put in updated.
C8_UndefinedIsIgnored ==
  \A c \in 1..Len(calls) : \A t \in 1..Len(tasks[c]) :
    LET task == tasks[c][t]
        hits == {h \in Range(Snapshot(c)) : Get(h, "contentType") = Str(task.type)}
    IN Reconciled(task) =>
         \A d \in Range(Fresh(task)) :
           (\A h \in hits : SameIdLocale(d, h) => SameContent(d, h))
             => d \notin {Delete(u, "objectID") : u \in Range(task.results.updated)}

----------------------------------------------------------------------------
(* C10: the snapshot is fetched at most once per Algolia instance *)

\* C10: on every Algolia instance browseAll is started at most once,
\* whatever the number and the interleaving of its indexData calls; every
\* task that got its lists got them from the one cached snapshot; after a
\* failed scan every task of the instance ends with that failure and the
\* scan is not started again.
C10_ScanAtMostOnce ==
  \A c \in 1..Len(calls) :
    /\ algolia[c].browses <= 1
    /\ (algolia[c].browses = 0) <=> (algolia[c].cachedResults.state = "null")
    /\ \A t \in 1..Len(tasks[c]) :
         LET task == tasks[c][t]
         IN /\ Reconciled(task) =>
                 /\ algolia[c].cachedResults.state = "resolved"
                 /\ task.results =
                      getElementsPromise(Fresh(task), Str(task.type), Snapshot(c))
            /\ task.error = "scan" => algolia[c].cachedResults.state = "rejected"
            /\ (algolia[c].cachedResults.state = "rejected" /\ task.pc = "done")
                 => task.error \in {"scan", "fetch", "observer"}

\* two record types on one instance whose one scan failed: both got the
\* failure
C10_Witness ==
  \E c \in 1..Len(calls) :
    /\ Len(tasks[c]) >= 2
    /\ algolia[c].browses = 1
    /\ algolia[c].cachedResults.state = "rejected"
    /\ \A t \in 1..2 : tasks[c][t].pc = "done" /\ tasks[c][t].error = "scan"

----------------------------------------------------------------------------
(* C11: what has completed when the promise of sync resolves *)

\* the promise sync returns for call c has resolved: Promise.all over the
\* chains of its record types, each of which ends resolved
SyncResolved(c) == \A t \in 1..Len(tasks[c]) : tasks[c][t].pc = "done"

\* C11 (as claimed): when the promise returned by sync has resolved, every
\* create, update and delete request that the call issued to the index has
\* completed; none is still in flight.
C11_NothingInFlightWhenResolved ==
  \A c \in 1..Len(calls) :
    SyncResolved(c) => ~\E r \in inflight : r.call = c

----------------------------------------------------------------------------
(* C12: a failure of one record type leaves the others alone *)

\* the event the chain of a task waits for is pending: the answer to its
\* page request, the run of its .then, the end of the scan, or the answer
\* to each write it awaits
EventPending(c, t) ==
  LET task == tasks[c][t]
  IN CASE task.pc \in {"paging", "localized"} -> TRUE
       [] task.pc = "browsing" -> algolia[c].cachedResults.state # "null"
       [] task.pc = "writing" ->
            /\ task.waiting # {}
            /\ \A op \in task.waiting :
                 \E r \in inflight : r.call = c /\ r.task = t /\ r.op = op
       [] OTHER -> FALSE

\* C12: a step in which the fetch or a batch write of one record type fails
\* changes nothing of the other record types of the call, and a chain that
\* has ended stays ended; a chain that has not ended is never left without
\* a pending event, whatever happened to the others; and a chain that ended
\* without an error of its own has been fetched completely and reconciled,
\* all its awaited writes answered.
C12_FailuresAreIsolated ==
  /\ [][\A c \in 1..Len(calls) : \A t \in 1..Len(tasks[c]) :
          /\ ( /\ tasks[c][t].error = "none"
               /\ tasks'[c][t].error \in {"fetch", "batch"} )
             => \A t2 \in 1..Len(tasks[c]) : t2 # t => tasks'[c][t2] = tasks[c][t2]
          /\ tasks[c][t].pc = "done" => tasks'[c][t] = tasks[c][t]]_vars
  /\ [](\A c \in 1..Len(calls) : \A t \in 1..Len(tasks[c]) :
          /\ tasks[c][t].pc # "done" => EventPending(c, t)
          /\ (tasks[c][t].pc = "done" /\ tasks[c][t].error = "none")
               => /\ Reconciled(tasks[c][t])
                  /\ tasks[c][t].waiting = {}
                  /\ tasks[c][t].entries =
                       ClientGetEntries(Query(tasks[c][t].type, tasks[c][t].entryId, 0)).items)

\* of the two record types of a call one failed (its fetch or a batch
\* write) and the other was reconciled to completion
C12_Witness ==
  \E c \in 1..Len(calls) :
    /\ Len(tasks[c]) >= 2
    /\ \E t, t2 \in 1..Len(tasks[c]) :
         /\ tasks[c][t].pc = "done" /\ tasks[c][t].error \in {"fetch", "batch"}
         /\ tasks[c][t2].pc = "done" /\ tasks[c][t2].error = "none"
         /\ Reconciled(tasks[c][t2])

----------------------------------------------------------------------------
(* C13: the identifiers indexData resolves with *)

\* C13 (as claimed): for a pass that ended without error, indexData
\* resolves with a list that holds the objectID of every document created,
\* of every document updated and of every document deleted in the pass, and
\* nothing else.
C13_ReturnsTheIdentifiers ==
  \A c \in 1..Len(calls) : \A t \in 1..Len(tasks[c]) :
    LET task == tasks[c][t]
    IN (task.pc = "done" /\ task.error = "none") =>
         /\ task.returned.type = "array"
         /\ Range(task.returned.items) =
              {ObjectID(r) : r \in addObjects(c, t, task.results.created)}
              \cup {Get(u, "objectID") : u \in Range(task.results.updated)}
              \cup Range(task.deleted)

----------------------------------------------------------------------------
(* C14: an empty list is no request *)

\* C14: addObjects([]), updateObjects([]) and deleteObjects([]) send
\* nothing and give an empty identifier list; no request to the index has
\* an empty body, the requests of a task are those of its non-empty lists,
\* and a pass whose three lists are empty ends at once with an empty list
\* and without any write request.
C14_EmptyListsSendNothing ==
  /\ \A c \in 1..MaxCalls : \A t \in 1..MaxTasks :
       /\ addObjects(c, t, <<>>) = {}
       /\ updateObjects(c, t, <<>>) = {}
       /\ deleteObjects(c, t, <<>>) = {}
  /\ AddResult(<<>>).objectIDs = <<>>
  /\ \A r \in inflight :
       /\ Len(r.body) >= 1
       /\ r \in indexObjects(r.call, r.task, tasks[r.call][r.task].results.created,
                             tasks[r.call][r.task].results.updated,
                             tasks[r.call][r.task].deleted)
  /\ \A c \in 1..Len(calls) : \A t \in 1..Len(tasks[c]) :
       LET task == tasks[c][t]
       IN ( /\ Reconciled(task)
            /\ task.results.created = <<>>
            /\ task.results.updated = <<>>
            /\ task.deleted = <<>> )
          => /\ task.pc = "done"
             /\ task.error = "none"
             /\ task.returned = [type |-> "array", items |-> <<>>]
             /\ ~\E r \in inflight : r.call = c /\ r.task = t

\* a pass over documents that the index holds unchanged: nothing to create,
\* to update or to delete
C14_Witness ==
  \E c \in 1..Len(calls) : \E t \in 1..Len(tasks[c]) :
    /\ Reconciled(tasks[c][t])
    /\ tasks[c][t].content # <<>>
    /\ tasks[c][t].results.created = <<>>
    /\ tasks[c][t].results.updated = <<>>
    /\ tasks[c][t].deleted = <<>>

----------------------------------------------------------------------------
(* C15: flattening without a locale specification *)

\* C15 (as claimed): when no locale specification is configured,
\* flattening a source record does not fail and gives the record's fields
\* merged onto its identity envelope.
C15_NoLocalesFlattens ==
  (~localesGiven /\ flatPc \notin {"init", "resolved"}) =>
    /\ flatPc = "merged"
    /\ flatValue =
         Obj(_mergeFields([k \in DOMAIN flatEntry.sys.props \ SysDeleted |->
                             flatEntry.sys.props[k]],
                          flatEntry.fields.props))

----------------------------------------------------------------------------
(* C16: what is put in updated *)

\* C16 (as claimed): every document in updated carries the objectID of a
\* snapshot entry with the same id and the same locale; no document without
\* objectID is passed to the batch upsert; and no document is in both
\* created and updated.
C16_UpdatedCarryTheirObjectID ==
  /\ \A c \in 1..Len(calls) : \A t \in 1..Len(tasks[c]) :
       LET task == tasks[c][t]
       IN Reconciled(task) =>
            /\ \A u \in Range(task.results.updated) :
                 \E h \in Range(Snapshot(c)) :
                   /\ Get(u, "objectID") = Get(h, "objectID")
                   /\ SameIdLocale(u, h)
            /\ \A u \in Range(task.results.updated) :
                 \A d \in Range(task.results.created) : ~SameIdLocale(u, d)
  /\ \A r \in inflight :
       r.op = "update" =>
         \A n \in 1..Len(r.body) : Get(r.body[n], "objectID").type = "string"

----------------------------------------------------------------------------
(* C17: the observer and the indexing path *)

\* C17 (as claimed): a record type whose observer threw is still
\* reconciled, so its chain does not end before indexData has resolved; and
\* the observer of a record type has been invoked before any write of that
\* type is sent.
C17_ObserverFailureIsHarmless ==
  /\ \A c \in 1..Len(calls) : \A t \in 1..Len(tasks[c]) :
       (tasks[c][t].pc = "done" /\ tasks[c][t].error = "observer")
         => tasks[c][t].returned.type # "pending"
  /\ \A r \in inflight : Truthy(tasks[r.call][r.task].observed)

----------------------------------------------------------------------------
(* C18: the cycle guard of _cleanMore *)

RECURSIVE CleanMoreGuarded(_, _, _)
\* _cleanMore with the guard the claim describes: only an entry that is on
\* the stack is returned as it is
CleanMoreGuarded(entry, locale, cleanStack) ==
  IF indexOf(cleanStack, Obj(entry)) >= 0 THEN entry
  ELSE merge(entry,
         [key \in {k \in DOMAIN entry : entry[k].type = "object"} |->
            IF Truthy(GetV(entry[key], "sys"))
              THEN Obj(_cleanEntry(entry[key].props, FALSE))
              ELSE Obj(CleanMoreGuarded(entry[key].props, locale,
                                        Append(cleanStack, Obj(entry))))])

\* C18 (as claimed): _cleanMore returns an entry that is on the stack
\* unchanged, and descends into an entry that is not on the stack (the
\* first entry, with the empty stack, among them), cleaning its nested
\* objects.
C18_GuardStopsOnlyOnRepeat ==
  flatPc = "cleaned" =>
    /\ indexOf(flatStack, flatField) >= 0 => flatValue = flatField
    /\ flatValue = Obj(CleanMoreGuarded(flatField.props, flatGroup, flatStack))

----------------------------------------------------------------------------
(* C19: overlapping sync calls on one Sync instance *)

\* C19 (as claimed): the chain of every record type of a sync call runs
\* singleCallback with the entryId and the callback that call was given,
\* also when another sync call was made on the instance in between: its
\* isSingle is that of its own call, its observer is its own call's, and a
\* call with entryId set deletes nothing.
C19_EachCallKeepsItsArguments ==
  \A c \in 1..Len(calls) : \A t \in 1..Len(tasks[c]) :
    /\ Truthy(tasks[c][t].observed) => tasks[c][t].observed = calls[c].callback
    /\ (Truthy(tasks[c][t].observed) /\ tasks[c][t].error # "observer")
         => /\ tasks[c][t].isSingle = Truthy(calls[c].entryId)
            /\ Truthy(calls[c].entryId) => tasks[c][t].deleted = <<>>

----------------------------------------------------------------------------
(* C20: the lookup key *)

\* C20 (as claimed): a flat document and a snapshot entry with different
\* (id, locale) pairs never get the same key from getEntryKey, so a snapshot
\* entry that has the key of a flat document has its id and its locale.
C20_KeySeparatesDocuments ==
  \A c \in 1..Len(calls) : \A t \in 1..Len(tasks[c]) :
    Reconciled(tasks[c][t]) =>
      \A d \in Range(Fresh(tasks[c][t])) : \A h \in Range(Snapshot(c)) :
        getEntryKey(d) = getEntryKey(h) => SameIdLocale(d, h)

----------------------------------------------------------------------------
(* C21: the cached snapshot and repeated passes on one Algolia instance *)

\* the create requests the passes of call c have issued so far: one per
\* document of the created list of each of its tasks
Creates(c) ==
  {[task |-> t, no |-> n, object |-> tasks[c][t].results.created[n]] :
     <<t, n>> \in {<<t, n>> \in (1..Len(tasks[c])) \X (1..MaxGroups * MaxTasks) :
                     n <= Len(tasks[c][t].results.created)}}

SameDocument(d, h) ==
  SameIdLocale(d, h) /\ Get(d, "contentType") = Get(h, "contentType")

\* C21 (as claimed): over the indexData calls on the Algolia instance of one
\* sync call, at most one create is issued per (id, locale) of a record
\* type, and the documents these creates stored in the index are pairwise of
\* different (id, locale).
C21_OneCreatePerDocument ==
  \A c \in 1..Len(calls) :
    /\ \A r1, r2 \in Creates(c) :
         SameDocument(r1.object, r2.object) => r1 = r2
    /\ \A r1, r2 \in Creates(c) :
         LET id1 == ObjectID([call |-> c, task |-> r1.task, no |-> r1.no]).value
             id2 == ObjectID([call |-> c, task |-> r2.task, no |-> r2.no]).value
         IN (id1 \in DOMAIN index /\ id2 \in DOMAIN index
               /\ SameDocument(index[id1], index[id2])) => id1 = id2

====
